---- MODULE Spec2Model ----
(***************************************************************************)
(* Model of inst/python/RadarCorrection.py: the module-level script that   *)
(* echoes its four arguments, changes directory, looks for manifest.safe,  *)
(* reads the product, derives sat/typen/daten from the directory name and  *)
(* runs Ellipsoid-Correction-GG for the polarizations VH and VV.           *)
(*                                                                         *)
(* Strings are TLA+ strings; a Python slice s[a:b] is Slice(s, a, b).      *)
(* The script is started again and again by its caller (one process per    *)
(* product); prev remembers what the previous process computed, so that    *)
(* two runs can be compared.                                               *)
(***************************************************************************)
EXTENDS Integers, Sequences, FiniteSets, TLC

VARIABLES
    argv,          \* [snapydir, imagedir, outdirname, orchdir]: sys.argv[1..4]
    pc,            \* position of the running process in the script
    err,           \* "" or the name of the uncaught exception that ended it
    out,           \* lines printed on stdout, in order
    cwd,           \* the process's current working directory
    bound,         \* module-level names bound so far (only filename matters)
    branch,        \* "none" | "found" | "absent": outcome of os.path.isfile
    manifestpath, filename, sat, typen, daten,
    i,             \* number of completed iterations of "for p in pols"
    polarization, parameters, terrain,
    sentinel_1, target_2,   \* product handles (0: not assigned)
    calls,         \* calls made into the engine (ProductIO, GPF) and gc, in order
    outputs,       \* absolute paths of the files this process has written
    targets,       \* the terrain strings computed so far, with their fields
    prev           \* summary of the previous process, or NoRun

vars == <<argv, pc, err, out, cwd, bound, branch, manifestpath, filename, sat,
          typen, daten, i, polarization, parameters, terrain, sentinel_1,
          target_2, calls, outputs, targets, prev>>

(***************************************************************************)
(* Strings                                                                 *)
(***************************************************************************)
Min(a, b) == IF a <= b THEN a ELSE b

\* s[a:b] of Python, 0 <= a <= b
Slice(s, a, b) ==
    IF a >= Len(s) \/ a >= b THEN "" ELSE SubSeq(s, a + 1, Min(b, Len(s)))

\* the character at 1-based position k, "" outside the string
Ch(s, k) == IF k >= 1 /\ k <= Len(s) THEN SubSeq(s, k, k) ELSE ""

Digits == {"0", "1", "2", "3", "4", "5", "6", "7", "8", "9"}

DigitVal(c) ==
    CASE c = "0" -> 0 [] c = "1" -> 1 [] c = "2" -> 2 [] c = "3" -> 3
      [] c = "4" -> 4 [] c = "5" -> 5 [] c = "6" -> 6 [] c = "7" -> 7
      [] c = "8" -> 8 [] c = "9" -> 9

DigitChar(n) ==
    CASE n = 0 -> "0" [] n = 1 -> "1" [] n = 2 -> "2" [] n = 3 -> "3"
      [] n = 4 -> "4" [] n = 5 -> "5" [] n = 6 -> "6" [] n = 7 -> "7"
      [] n = 8 -> "8" [] n = 9 -> "9"

RECURSIVE ToInt(_)
ToInt(s) ==
    IF s = "" THEN 0
    ELSE 10 * ToInt(SubSeq(s, 1, Len(s) - 1)) + DigitVal(Ch(s, Len(s)))

RECURSIVE ToStr(_)
ToStr(n) == IF n < 10 THEN DigitChar(n) ELSE ToStr(n \div 10) \o DigitChar(n % 10)

\* "%03d"
Pad3(n) == IF n < 10 THEN "00" \o ToStr(n) ELSE IF n < 100 THEN "0" \o ToStr(n) ELSE ToStr(n)

(***************************************************************************)
(* os.path                                                                 *)
(***************************************************************************)
IsAbs(p) == Ch(p, 1) = "/"

\* posixpath.join(a, b)
Join(a, b) ==
    IF IsAbs(b) THEN b
    ELSE IF a = "" \/ Ch(a, Len(a)) = "/" THEN a \o b
    ELSE a \o "/" \o b

\* p.rfind('/') + 1
LastSlash(p) ==
    LET S == {k \in 1..Len(p) : Ch(p, k) = "/"}
    IN  IF S = {} THEN 0 ELSE CHOOSE k \in S : \A j \in S : j <= k

\* posixpath.basename(p)
Basename(p) == Slice(p, LastSlash(p), Len(p))

\* how the operating system resolves a path of the process
Resolve(dir, p) == IF IsAbs(p) THEN p ELSE dir \o "/" \o p

(***************************************************************************)
(* datetime.strptime(daten, '%Y%m%d') and .strftime('%Y%j')                *)
(*                                                                         *)
(* strptime matches the regular expression                                 *)
(*   (\d\d\d\d)(1[0-2]|0[1-9]|[1-9])(3[01]|[12]\d|0[1-9]|[1-9]| [1-9])     *)
(* at the start of the string, taking the alternatives in this order and   *)
(* backtracking into the month when no day follows; it raises ValueError   *)
(* when nothing matches, when text remains after the match, and when the   *)
(* day does not exist in that month.                                       *)
(***************************************************************************)
NonZero == Digits \ {"0"}

\* lengths of the month alternatives that match at position 5, in order
MonthLens(s) ==
    IF Ch(s, 5) = "1" /\ Ch(s, 6) \in {"0", "1", "2"} THEN <<2, 1>>
    ELSE IF Ch(s, 5) = "0" /\ Ch(s, 6) \in NonZero THEN <<2>>
    ELSE IF Ch(s, 5) \in NonZero THEN <<1>>
    ELSE <<>>

\* length of the first day alternative that matches at position j, 0 if none
DayLen(s, j) ==
    IF Ch(s, j) = "3" /\ Ch(s, j + 1) \in {"0", "1"} THEN 2
    ELSE IF Ch(s, j) \in {"1", "2"} /\ Ch(s, j + 1) \in Digits THEN 2
    ELSE IF Ch(s, j) = "0" /\ Ch(s, j + 1) \in NonZero THEN 2
    ELSE IF Ch(s, j) \in NonZero THEN 1
    ELSE IF Ch(s, j) = " " /\ Ch(s, j + 1) \in NonZero THEN 2
    ELSE 0

\* IsLeap without the century rule
IsLeapEveryFourth(y) == y % 4 = 0

IsLeap(y) == y % 4 = 0 /\ (y % 100 # 0 \/ y % 400 = 0)

DaysInMonthTable == <<31, 28, 31, 30, 31, 30, 31, 31, 30, 31, 30, 31>>

DaysInMonth(y, m) == IF m = 2 /\ IsLeap(y) THEN 29 ELSE DaysInMonthTable[m]

DaysBeforeMonthTable == <<0, 31, 59, 90, 120, 151, 181, 212, 243, 273, 304, 334>>

DaysBeforeMonth(y, m) ==
    DaysBeforeMonthTable[m] + (IF m > 2 /\ IsLeap(y) THEN 1 ELSE 0)

NoDate == [ok |-> FALSE, year |-> 0, month |-> 0, day |-> 0]

\* int() of the day group, which may start with a blank
DayVal(d) == IF Ch(d, 1) = " " THEN ToInt(Slice(d, 1, 2)) ELSE ToInt(d)

\* Strptime without the check that the day exists in its month
StrptimeAnyDay(s) ==
    LET yearOk == Len(s) >= 4 /\ \A k \in 1..4 : Ch(s, k) \in Digits
        ms     == MonthLens(s)
        good   == {k \in 1..Len(ms) : DayLen(s, 5 + ms[k]) > 0}
    IN  IF ~yearOk \/ good = {} THEN NoDate
        ELSE LET k  == CHOOSE x \in good : \A z \in good : x <= z
                 ml == ms[k]
                 dl == DayLen(s, 5 + ml)
             IN  IF 4 + ml + dl # Len(s) THEN NoDate
                 ELSE [ok |-> TRUE, year |-> ToInt(Slice(s, 0, 4)),
                       month |-> ToInt(Slice(s, 4, 4 + ml)),
                       day |-> DayVal(Slice(s, 4 + ml, 4 + ml + dl))]

Strptime(s) ==
    LET yearOk == Len(s) >= 4 /\ \A k \in 1..4 : Ch(s, k) \in Digits
        ms     == MonthLens(s)
        good   == {k \in 1..Len(ms) : DayLen(s, 5 + ms[k]) > 0}
    IN  IF ~yearOk \/ good = {} THEN NoDate
        ELSE LET k  == CHOOSE x \in good : \A z \in good : x <= z
                 ml == ms[k]
                 dl == DayLen(s, 5 + ml)
                 y  == ToInt(Slice(s, 0, 4))
                 m  == ToInt(Slice(s, 4, 4 + ml))
                 d  == DayVal(Slice(s, 4 + ml, 4 + ml + dl))
             IN  IF 4 + ml + dl # Len(s) THEN NoDate      \* unconverted data remains
                 ELSE IF y < 1 \/ d > DaysInMonth(y, m) THEN NoDate
                 ELSE [ok |-> TRUE, year |-> y, month |-> m, day |-> d]

\* '%Y%j': the year and the day of the year as "%03d"
Strftime(t) == ToStr(t.year) \o Pad3(DaysBeforeMonth(t.year, t.month) + t.day)

(***************************************************************************)
(* The inputs of a run and the file system it runs in                      *)
(***************************************************************************)
\* a Sentinel-1 SAFE directory name: 17 characters, the date, then the rest
SafeName(s, t, d, rest) == s \o "_IW_" \o t \o "_1SDV_" \o d \o rest

CandidateNames ==
    << SafeName("S1A", "GRDH", "20200615", "T"),
       SafeName("S1B", "GRDH", "20200615", "T"),
       SafeName("S1A", "SLC_", "20190301", "T"),
       SafeName("S1A", "GRDH", "20200301", "T"),
       SafeName("S1A", "GRDH", "21000301", "T"),
       SafeName("S1A", "GRDH", "20190229", "T"),     \* no such day
       SafeName("S1A", "GRDH", "2020T615", "T"),     \* not numeric
       SafeName("S1A", "GRDH", "202006 5", "T"),     \* a blank before the day
       SafeName("S1A", "GRDH", "2020123", ""),       \* 24 characters
       SafeName("S1B", "SLC_", "20240229", "T"),
       SafeName("S1A", "GRDH", "20201301", "T") >>   \* no such month

\* how many of the candidate names the products under /w1 take
MaxNames == 9

Basenames == {CandidateNames[k] : k \in 1..Min(MaxNames, Len(CandidateNames))}

\* directories that exist; every product under /w1 holds a manifest.safe,
\* the product under /w2 holds none
Dirs == {"/w1", "/w2"}

Manifests == {"/w1/" \o b \o "/manifest.safe" : b \in Basenames}

ImageDirs ==
    {"/w1/" \o b : b \in Basenames}
    \cup { "/w2/" \o SafeName("S1A", "GRDH", "20200615", "T"),
           SafeName("S1A", "GRDH", "20200615", "T"),
           "/w1/" \o SafeName("S1A", "GRDH", "20200615", "T") \o "/" }

OutDirs == {"/out", "out"}

WorkDirs == {"/w1", "/w2", "/nx"}

SnapDirs == {"/snap"}

Args ==
    [snapydir : SnapDirs, imagedir : ImageDirs, outdirname : OutDirs, orchdir : WorkDirs]

\* the directory the caller starts the interpreter in
LaunchDir == "/w2"

NoRun == [ran |-> FALSE]

pols == <<"VH", "VV">>

EmptyMap == <<>>

\* HashMap.put
Put(m, k, v) == [x \in (DOMAIN m) \cup {k} |-> IF x = k THEN v ELSE m[x]]

\* os.path.isfile, for the files the model holds
IsFile(p) == Resolve(cwd, p) \in Manifests

\* the handle the engine returns next: handles are numbered from 1 in a process
NewHandle == 1 + Cardinality({k \in 1..Len(calls) : calls[k].ret # 0})

\* Terrain without the polarization
TerrainNoPol(o, s, t, d, p) == o \o "/" \o s \o "_" \o t \o "_" \o d \o "_projected_Amplitude"

\* line 73
Terrain(o, s, t, d, p) == o \o "/" \o s \o "_" \o t \o "_" \o d \o "_projected_Amplitude_" \o p

\* Parameters with the source band of the first polarization for both
ParametersFirstPol(p) ==
    Put(Put(Put(EmptyMap, "imgResamplingMethod", "BILINEAR_INTERPOLATION"),
            "sourceBands", "Amplitude_" \o pols[1]),
        "mapProjection", "AUTO:42001")

\* lines 65-68
Parameters(p) ==
    Put(Put(Put(EmptyMap, "imgResamplingMethod", "BILINEAR_INTERPOLATION"),
            "sourceBands", "Amplitude_" \o p),
        "mapProjection", "AUTO:42001")

Fresh(a) ==
    /\ argv = a
    /\ pc = "echo"
    /\ err = ""
    /\ out = <<>>
    /\ cwd = LaunchDir
    /\ bound = {}
    /\ branch = "none"
    /\ manifestpath = ""
    /\ filename = ""
    /\ sat = ""
    /\ typen = ""
    /\ daten = ""
    /\ i = 0
    /\ polarization = ""
    /\ parameters = EmptyMap
    /\ terrain = ""
    /\ sentinel_1 = 0
    /\ target_2 = 0
    /\ calls = <<>>
    /\ outputs = {}
    /\ targets = <<>>

Init == (\E a \in Args : Fresh(a)) /\ prev = NoRun

\* an uncaught exception: the traceback goes to stderr and the process ends
Raise(e) == pc' = "exit" /\ err' = e

(***************************************************************************)
(* The script, a step at a time                                            *)
(***************************************************************************)
\* lines 5-12
Echo ==
    /\ pc = "echo"
    /\ out' = out \o << "Snap Dir: " \o argv.snapydir,
                        "Image Dir: " \o argv.imagedir,
                        "Output Dir: " \o argv.outdirname,
                        "Working Dir: " \o argv.orchdir >>
    /\ pc' = "import"
    /\ UNCHANGED <<argv, err, cwd, bound, branch, manifestpath, filename, sat, typen,
                   daten, i, polarization, parameters, terrain, sentinel_1, target_2,
                   calls, outputs, targets, prev>>

\* lines 15-22: the engine's bindings are found under snapydir, or not
ImportSnappy ==
    /\ pc = "import"
    /\ \E ok \in BOOLEAN :
          IF ok THEN pc' = "chdir" /\ err' = err ELSE Raise("ImportError")
    /\ UNCHANGED <<argv, out, cwd, bound, branch, manifestpath, filename, sat, typen,
                   daten, i, polarization, parameters, terrain, sentinel_1, target_2,
                   calls, outputs, targets, prev>>

\* line 26
Chdir ==
    /\ pc = "chdir"
    /\ IF argv.orchdir \in Dirs
          THEN cwd' = argv.orchdir /\ pc' = "manifest" /\ err' = err
          ELSE cwd' = cwd /\ Raise("FileNotFoundError")
    /\ UNCHANGED <<argv, out, bound, branch, manifestpath, filename, sat, typen,
                   daten, i, polarization, parameters, terrain, sentinel_1, target_2,
                   calls, outputs, targets, prev>>

\* ManifestPath made absolute against the working directory
ManifestPathAbs(d) == Join(Resolve(cwd, d), "manifest.safe")

\* lines 30-31
ManifestPath(d) == Join(d, "manifest.safe")

ManifestCheck ==
    /\ pc = "manifest"
    /\ manifestpath' = ManifestPath(argv.imagedir)
    /\ IF IsFile(manifestpath')
          THEN branch' = "found" /\ pc' = "found"
          ELSE branch' = "absent" /\ pc' = "notfound"
    /\ UNCHANGED <<argv, err, out, cwd, bound, filename, sat, typen,
                   daten, i, polarization, parameters, terrain, sentinel_1, target_2,
                   calls, outputs, targets, prev>>

\* lines 32-33
ManifestFound ==
    /\ pc = "found"
    /\ filename' = Basename(argv.imagedir)
    /\ bound' = bound \cup {"filename"}
    /\ out' = Append(out, "Manifest found!   " \o filename')
    /\ pc' = "read"
    /\ UNCHANGED <<argv, err, cwd, branch, manifestpath, sat, typen,
                   daten, i, polarization, parameters, terrain, sentinel_1, target_2,
                   calls, outputs, targets, prev>>

\* ReadProduct that tries once more after a first failure
ReadProductRetry ==
    /\ pc = "read"
    /\ \E ok \in BOOLEAN :
          /\ calls' = Append(calls, [op |-> "readProduct", path |-> manifestpath,
                                     ok |-> ok, ret |-> IF ok THEN NewHandle ELSE 0])
          /\ IF ok THEN sentinel_1' = NewHandle /\ pc' = "identity" /\ err' = err
             ELSE IF calls = <<>> THEN sentinel_1' = sentinel_1 /\ pc' = pc /\ err' = err
             ELSE sentinel_1' = sentinel_1 /\ Raise("RuntimeError")
    /\ UNCHANGED <<argv, out, cwd, bound, branch, manifestpath, filename, sat, typen,
                   daten, i, polarization, parameters, terrain, target_2,
                   outputs, targets, prev>>

\* line 34: the engine returns a handle or raises
ReadProduct ==
    /\ pc = "read"
    /\ \E ok \in BOOLEAN :
          /\ calls' = Append(calls, [op |-> "readProduct", path |-> manifestpath,
                                     ok |-> ok, ret |-> IF ok THEN NewHandle ELSE 0])
          /\ IF ok THEN sentinel_1' = NewHandle /\ pc' = "identity" /\ err' = err
                   ELSE sentinel_1' = sentinel_1 /\ Raise("RuntimeError")
    /\ UNCHANGED <<argv, out, cwd, bound, branch, manifestpath, filename, sat, typen,
                   daten, i, polarization, parameters, terrain, target_2,
                   outputs, targets, prev>>

\* lines 37-39 for every name a run can be given: the parse of filename[17:25]
\* and, where it succeeds, the text it is formatted to
Filenames == {Basename(d) : d \in ImageDirs}

ParsedDate == [f \in Filenames |-> Strptime(Slice(f, 17, 25))]

FormattedDate ==
    [f \in Filenames |-> IF ParsedDate[f].ok THEN Strftime(ParsedDate[f]) ELSE ""]

\* lines 35-39
Identity ==
    /\ pc = "identity"
    /\ sat' = Slice(filename, 0, 3)
    /\ typen' = Slice(filename, 7, 11)
    /\ IF ParsedDate[filename].ok
          THEN /\ daten' = FormattedDate[filename]
               /\ pc' = "loop"
               /\ err' = err
          ELSE /\ daten' = Slice(filename, 17, 25)
               /\ Raise("ValueError")
    /\ UNCHANGED <<argv, out, cwd, bound, branch, manifestpath, filename,
                   i, polarization, parameters, terrain, sentinel_1, target_2,
                   calls, outputs, targets, prev>>

\* lines 41-73: the next polarization, its parameters and its output path
ForPol ==
    /\ pc = "loop"
    /\ i < Len(pols)
    /\ polarization' = pols[i + 1]
    /\ parameters' = Parameters(pols[i + 1])
    /\ terrain' = Terrain(argv.outdirname, sat, typen, daten, polarization')
    /\ targets' = Append(targets, [outdirname |-> argv.outdirname, sat |-> sat,
                                   typen |-> typen, daten |-> daten,
                                   pol |-> polarization', path |-> terrain'])
    /\ pc' = "create"
    /\ UNCHANGED <<argv, err, out, cwd, bound, branch, manifestpath, filename, sat, typen,
                   daten, i, sentinel_1, target_2, calls, outputs, prev>>

\* line 43, when pols is exhausted
LoopExit ==
    /\ pc = "loop"
    /\ i >= Len(pols)
    /\ pc' = "finish"
    /\ UNCHANGED <<argv, err, out, cwd, bound, branch, manifestpath, filename, sat, typen,
                   daten, i, polarization, parameters, terrain, sentinel_1, target_2,
                   calls, outputs, targets, prev>>

\* CreateProduct that goes on to the next polarization when the engine raises
CreateProductContinue ==
    /\ pc = "create"
    /\ \E ok \in BOOLEAN :
          /\ calls' = Append(calls, [op |-> "createProduct", name |-> "Ellipsoid-Correction-GG",
                                     params |-> parameters, src |-> sentinel_1,
                                     ok |-> ok, ret |-> IF ok THEN NewHandle ELSE 0])
          /\ IF ok THEN target_2' = NewHandle /\ pc' = "write" /\ i' = i
                   ELSE target_2' = target_2 /\ pc' = "loop" /\ i' = i + 1
    /\ UNCHANGED <<argv, err, out, cwd, bound, branch, manifestpath, filename, sat, typen,
                   daten, polarization, parameters, terrain, sentinel_1,
                   outputs, targets, prev>>

\* line 74
CreateProduct ==
    /\ pc = "create"
    /\ \E ok \in BOOLEAN :
          /\ calls' = Append(calls, [op |-> "createProduct", name |-> "Ellipsoid-Correction-GG",
                                     params |-> parameters, src |-> sentinel_1,
                                     ok |-> ok, ret |-> IF ok THEN NewHandle ELSE 0])
          /\ IF ok THEN target_2' = NewHandle /\ pc' = "write" /\ err' = err
                   ELSE target_2' = target_2 /\ Raise("RuntimeError")
    /\ UNCHANGED <<argv, out, cwd, bound, branch, manifestpath, filename, sat, typen,
                   daten, i, polarization, parameters, terrain, sentinel_1,
                   outputs, targets, prev>>

\* line 75, and the end of the loop body
WriteProduct ==
    /\ pc = "write"
    /\ \E ok \in BOOLEAN :
          /\ calls' = Append(calls, [op |-> "writeProduct", product |-> target_2,
                                     path |-> terrain, format |-> "BEAM-DIMAP",
                                     ok |-> ok, ret |-> 0])
          /\ IF ok THEN /\ outputs' = outputs \cup {Resolve(cwd, terrain)}
                        /\ i' = i + 1
                        /\ pc' = "loop"
                        /\ err' = err
                   ELSE /\ outputs' = outputs
                        /\ i' = i
                        /\ Raise("RuntimeError")
    /\ UNCHANGED <<argv, out, cwd, bound, branch, manifestpath, filename, sat, typen,
                   daten, polarization, parameters, terrain, sentinel_1, target_2,
                   targets, prev>>

\* lines 76-77: filename is read, bound or not
ManifestNotFound ==
    /\ pc = "notfound"
    /\ IF "filename" \in bound
          THEN out' = Append(out, "Manifest not found for " \o filename)
               /\ pc' = "finish" /\ err' = err
          ELSE out' = out /\ Raise("NameError")
    /\ UNCHANGED <<argv, cwd, bound, branch, manifestpath, filename, sat, typen,
                   daten, i, polarization, parameters, terrain, sentinel_1, target_2,
                   calls, outputs, targets, prev>>

\* line 78
Finished ==
    /\ pc = "finish"
    /\ out' = Append(out, "finished")
    /\ pc' = "exit"
    /\ UNCHANGED <<argv, err, cwd, bound, branch, manifestpath, filename, sat, typen,
                   daten, i, polarization, parameters, terrain, sentinel_1, target_2,
                   calls, outputs, targets, prev>>

\* what is kept of a process that has ended
Summary ==
    [ran |-> TRUE, argv |-> argv, err |-> err, branch |-> branch,
     manifestpath |-> manifestpath, filename |-> filename,
     ident |-> <<sat, typen, daten>>, targets |-> targets]

\* the caller starts the script again, on the same or on another product
NextInvocation ==
    /\ pc = "exit"
    /\ prev' = Summary
    /\ \E a \in Args :
          /\ argv' = a
          /\ pc' = "echo"
          /\ err' = ""
          /\ out' = <<>>
          /\ cwd' = LaunchDir
          /\ bound' = {}
          /\ branch' = "none"
          /\ manifestpath' = ""
          /\ filename' = ""
          /\ sat' = ""
          /\ typen' = ""
          /\ daten' = ""
          /\ i' = 0
          /\ polarization' = ""
          /\ parameters' = EmptyMap
          /\ terrain' = ""
          /\ sentinel_1' = 0
          /\ target_2' = 0
          /\ calls' = <<>>
          /\ outputs' = {}
          /\ targets' = <<>>

\* the steps of the running process
Step ==
    \/ Echo
    \/ ImportSnappy
    \/ Chdir
    \/ ManifestCheck
    \/ ManifestFound
    \/ ReadProduct
    \/ Identity
    \/ ForPol
    \/ LoopExit
    \/ CreateProduct
    \/ WriteProduct
    \/ ManifestNotFound
    \/ Finished

Next == Step \/ NextInvocation

Spec == Init /\ [][Next]_vars

\* one process on its own: every call into the engine returns or raises, and
\* the interpreter runs on until the script ends
FairSpec == Init /\ [][Step]_vars /\ WF_vars(Step)

\* how a process that has ended has ended
Outcome ==
    IF pc # "exit" THEN "Running"
    ELSE IF err # "" THEN "Failed"
    ELSE IF branch = "found" THEN "Done"
    ELSE "Skipped"

(***************************************************************************)
(* Vocabulary of the properties                                            *)
(***************************************************************************)
CallIdx(o) == {k \in 1..Len(calls) : calls[k].op = o}

\* the polarization a call is about: the last two characters of sourceBands
\* (createProduct) or of the output path (writeProduct)
Tail2(s) == Slice(s, Len(s) - 2, Len(s))

PolOf(c) ==
    IF c.op = "createProduct" THEN Tail2(c.params["sourceBands"])
    ELSE IF c.op = "writeProduct" THEN Tail2(c.path)
    ELSE ""

\* the identity has been derived: line 39 has run
IdentityDone ==
    \/ pc \in {"loop", "create", "write", "finish"}
    \/ pc = "exit" /\ branch = "found" /\ (Len(targets) > 0 \/ err = "")

\* the date substring the script parses
DateText == Slice(filename, 17, 25)

EchoLines ==
    << "Snap Dir: " \o argv.snapydir, "Image Dir: " \o argv.imagedir,
       "Output Dir: " \o argv.outdirname, "Working Dir: " \o argv.orchdir >>

\* C1: with manifest.safe absent the run makes no engine call, writes no file
\* and ends in the Skipped state
C1_AbsentManifestSkips ==
    (pc = "exit" /\ branch = "absent")
        => (calls = <<>> /\ outputs = {} /\ Outcome = "Skipped")

RefLeap(y) == (y % 4 = 0 /\ y % 100 # 0) \/ y % 400 = 0

RefDays(y, m) ==
    CASE m \in {4, 6, 9, 11} -> 30
      [] m = 2 -> (IF RefLeap(y) THEN 29 ELSE 28)
      [] OTHER -> 31

AllDigits(d) == \A k \in 1..Len(d) : Ch(d, k) \in Digits

CalendarDate(d) ==
    /\ Len(d) = 8
    /\ AllDigits(d)
    /\ ToInt(SubSeq(d, 1, 4)) >= 1
    /\ ToInt(SubSeq(d, 5, 6)) \in 1..12
    /\ ToInt(SubSeq(d, 7, 8)) \in 1..RefDays(ToInt(SubSeq(d, 1, 4)), ToInt(SubSeq(d, 5, 6)))

Unparsable(d) ==
    \/ Len(d) < 6
    \/ \E k \in 1..Len(d) : Ch(d, k) \notin Digits \cup {" "}
    \/ Len(d) = 8 /\ AllDigits(d) /\ ~CalendarDate(d)

\* not 8 digits: what C3 calls malformed (non-numeric or of wrong length)
Malformed(d) == Len(d) # 8 \/ ~AllDigits(d)

\* C3 as stated: the parse failure of a malformed date substring is raised
\* with no engine call made and nothing written, and with a malformed date
\* substring no run gets past the parse
C3_ParseFailsBeforeAnyEngineCall ==
    /\ (err = "ValueError" /\ Malformed(DateText)) => (calls = <<>> /\ outputs = {})
    /\ ("filename" \in bound /\ Malformed(DateText)) => (~IdentityDone /\ outputs = {})

\* C3 as amended: a run ended by the date parser has made exactly one engine
\* call, the successful product read, has built no target and written nothing;
\* and no run gets past the parse with an unparsable date substring
C3_ParseFailsBeforeOperator ==
    /\ (err = "ValueError") =>
          /\ pc = "exit"
          /\ Len(calls) = 1 /\ calls[1].op = "readProduct" /\ calls[1].ok
          /\ targets = <<>> /\ outputs = {}
    /\ ("filename" \in bound /\ Unparsable(DateText)) =>
          /\ ~IdentityDone
          /\ CallIdx("createProduct") = {} /\ CallIdx("writeProduct") = {}
          /\ outputs = {}
          /\ ~(pc = "exit" /\ err = "")

C3_Witness ==
    pc = "exit" /\ err = "ValueError" /\ Unparsable(DateText) /\ Len(calls) = 1

\* every target computed by this process and by the previous one
TargetSet ==
    {targets[k] : k \in 1..Len(targets)}
    \cup (IF prev.ran THEN {prev.targets[k] : k \in 1..Len(prev.targets)} ELSE {})

\* C4: for one outdirname, two targets that differ in satellite code, product
\* type, day-of-year text or polarization have different output paths
C4_OutputPathInjective ==
    \A a, b \in TargetSet :
        (a.outdirname = b.outdirname
           /\ <<a.sat, a.typen, a.daten, a.pol>> # <<b.sat, b.typen, b.daten, b.pol>>)
        => a.path # b.path

C4_Witness ==
    /\ prev.ran
    /\ Len(targets) = 2 /\ Len(prev.targets) = 2
    /\ prev.argv.outdirname = argv.outdirname
    /\ prev.ident[1] # sat
    /\ prev.ident[2] = typen /\ prev.ident[3] = daten

\* the ordinal of a day in its year, by counting the days up to it
RefOrdinal(y, m, d) ==
    Cardinality({md \in (1..12) \X (1..31) :
                    /\ md[2] <= RefDays(y, md[1])
                    /\ (md[1] < m \/ (md[1] = m /\ md[2] <= d))})

WellFormedName(f) == Len(f) >= 25 /\ CalendarDate(SubSeq(f, 18, 25))

\* C5: for a well-formed name the parse succeeds, sat is characters 1-3, typen
\* characters 8-11, daten the four year digits followed by the three-digit
\* ordinal of the day; and a process given the same name as the previous one
\* derives the same identity
C5_IdentityFromBasename ==
    /\ (pc = "exit" /\ "filename" \in bound /\ WellFormedName(filename))
          => err # "ValueError"
    /\ (IdentityDone /\ WellFormedName(filename)) =>
          /\ sat = SubSeq(filename, 1, 3)
          /\ typen = SubSeq(filename, 8, 11)
          /\ Len(daten) = 7
          /\ SubSeq(daten, 1, 4) = SubSeq(filename, 18, 21)
          /\ AllDigits(daten)
          /\ ToInt(SubSeq(daten, 5, 7)) =
                RefOrdinal(ToInt(SubSeq(filename, 18, 21)),
                           ToInt(SubSeq(filename, 22, 23)),
                           ToInt(SubSeq(filename, 24, 25)))
    /\ (IdentityDone /\ prev.ran /\ prev.filename = filename /\ prev.targets # <<>>)
          => prev.ident = <<sat, typen, daten>>

C5_Witness ==
    /\ IdentityDone
    /\ filename = "S1A_IW_GRDH_1SDV_20200615T"
    /\ <<sat, typen, daten>> = <<"S1A", "GRDH", "2020167">>
    /\ prev.ran /\ prev.filename = filename /\ prev.targets # <<>>
    /\ prev.argv # argv

ManifestLines ==
    {"Manifest found!   " \o Basename(argv.imagedir),
     "Manifest not found for " \o Basename(argv.imagedir)}

\* C6: a run that reached the manifest check has printed the four echo lines,
\* then exactly one manifest message, and "finished" as its last line exactly
\* when it ended without an exception
C6_ConsoleOrder ==
    (pc = "exit" /\ branch # "none") =>
        /\ Len(out) >= 5
        /\ SubSeq(out, 1, 4) = EchoLines
        /\ out[5] \in ManifestLines
        /\ \A k \in 1..Len(out) : k # 5 => out[k] \notin ManifestLines
        /\ (err = "") <=> (out[Len(out)] = "finished")
        /\ Outcome \in {"Done", "Skipped"} => out[Len(out)] = "finished"

\* the engine calls of the loop, as <<operation, polarization>>
LoopCalls ==
    LET cs == SelectSeq(calls, LAMBDA c : c.op \in {"createProduct", "writeProduct"})
    IN  [k \in 1..Len(cs) |-> <<cs[k].op, PolOf(cs[k])>>]

LoopOrder ==
    << <<"createProduct", "VH">>, <<"writeProduct", "VH">>,
       <<"createProduct", "VV">>, <<"writeProduct", "VV">> >>

\* C7: the loop's engine calls are a prefix of create VH, write VH, create VV,
\* write VV; a call that failed is the last call and has ended the run; so a
\* VV output is written only after the VH output was
C7_VHThenVVAbortOnFailure ==
    /\ Len(LoopCalls) <= 4
    /\ LoopCalls = SubSeq(LoopOrder, 1, Len(LoopCalls))
    /\ \A k \in 1..Len(calls) :
          ~calls[k].ok => (k = Len(calls) /\ pc = "exit" /\ err = "RuntimeError")
    /\ \A k \in CallIdx("writeProduct") :
          PolOf(calls[k]) = "VV" =>
             \E j \in 1..(k - 1) :
                calls[j].op = "writeProduct" /\ PolOf(calls[j]) = "VH" /\ calls[j].ok

C7_Witness ==
    /\ pc = "exit" /\ err = "RuntimeError"
    /\ Len(calls) = 3 /\ calls[3].op = "writeProduct" /\ ~calls[3].ok
    /\ PolOf(calls[3]) = "VH"

ReleaseOps == {"gc.collect", "dispose", "closeIO"}

\* C8: a run that read a product has performed a release step by the time it
\* has ended, however it ended
C8_ReleaseBeforeExit ==
    (pc = "exit" /\ sentinel_1 # 0)
        => \E k \in 1..Len(calls) : calls[k].op \in ReleaseOps

\* no engine call is made twice, every operator takes the handle of the one
\* read as its source, nothing follows a failure, and a run that ended
\* without an exception has either made all five calls or none
NoRetry ==
    /\ Cardinality(CallIdx("readProduct")) <= 1
    /\ \A p \in {"VH", "VV"} : \A o \in {"createProduct", "writeProduct"} :
          Cardinality({k \in CallIdx(o) : PolOf(calls[k]) = p}) <= 1
    /\ \A k \in CallIdx("createProduct") :
          /\ calls[1].op = "readProduct" /\ calls[1].ok
          /\ calls[k].src = calls[1].ret /\ calls[k].src # 0
    /\ \A k \in CallIdx("writeProduct") :
          k > 1 /\ calls[k - 1].op = "createProduct" /\ calls[k].product = calls[k - 1].ret
    /\ \A k \in 1..Len(calls) : ~calls[k].ok => (k = Len(calls) /\ pc = "exit")
    /\ (pc = "exit") =>
          \/ err # ""
          \/ err = "" /\ branch = "found" /\ Len(calls) = 5
          \/ err = "" /\ branch = "absent" /\ calls = <<>>

\* C9: every run ends, and NoRetry holds throughout
C9_TerminatesWithoutRetry ==
    /\ []NoRetry
    /\ (pc # "exit") ~> (pc = "exit")

C9_Witness ==
    /\ pc = "exit" /\ err = "RuntimeError"
    /\ Len(calls) = 4 /\ ~calls[4].ok /\ calls[4].op = "createProduct"

\* the previous process was given the same arguments but for the working
\* directory, and both reached the manifest check
OnlyWorkdirDiffers ==
    /\ prev.ran
    /\ prev.argv.snapydir = argv.snapydir
    /\ prev.argv.imagedir = argv.imagedir
    /\ prev.argv.outdirname = argv.outdirname
    /\ prev.argv.orchdir # argv.orchdir
    /\ prev.branch # "none" /\ branch # "none"

SameTargetPaths ==
    \A k \in 1..Min(Len(targets), Len(prev.targets)) :
        targets[k].path = prev.targets[k].path

\* C10 as stated: two runs that differ only in the working directory take the
\* same branch and compute the same manifest path and target paths
C10_WorkdirChangesNothing ==
    OnlyWorkdirDiffers =>
        /\ prev.branch = branch
        /\ prev.manifestpath = manifestpath
        /\ SameTargetPaths

\* C10 as amended: they compute the same manifest path and target path
\* strings, and take the same branch when imagedir is absolute
C10_WorkdirChangesNoPathText ==
    OnlyWorkdirDiffers =>
        /\ prev.manifestpath = manifestpath
        /\ SameTargetPaths
        /\ IsAbs(argv.imagedir) => prev.branch = branch

C10_Witness ==
    /\ OnlyWorkdirDiffers
    /\ IsAbs(argv.imagedir) /\ ~IsAbs(argv.outdirname)
    /\ Len(targets) = 2 /\ Len(prev.targets) = 2

====
